---- MODULE Spec2Model ----
(***************************************************************************)
(* Model of google/dev/dev_runner.py: the development-mode runner that     *)
(* materializes configuration, tails the subsystem error logs, spawns the  *)
(* subsystems and deck, and waits for deck to answer HTTP 200.             *)
(*                                                                         *)
(* One orchestrator process is modelled step by step (pc is its position   *)
(* in DevRunner.start_all and the methods it calls).  The file system and  *)
(* the detached daemons persist from one invocation to the next.           *)
(***************************************************************************)
EXTENDS Integers, Sequences, FiniteSets, TLC

(* ---------------------------- bounds ----------------------------------- *)
NumSubsystems == 2          \* how many names get_all_subsystem_names() returns
MaxNotReady == 2            \* most non-200 answers before deck's first 200
MaxRuns == 2                \* invocations of the script that are explored
MaxLines == 3               \* most processes in a process table

(* ---------------------------- constants -------------------------------- *)
Subsystems == 1..NumSubsystems
Deck == 0                   \* the front-end; its log is LOG_DIR/deck.log
Names == Subsystems \cup {Deck}
HTTP_OK == 200
NotReadyCodes == {-1, 404, 503}   \* -1: connection failure reported by fetch
Never == MaxNotReady + 1    \* notReadyPolls value of a deck that never answers 200
MaxPolls == MaxNotReady + 2 \* the poll counter saturates here (never-ready deck only)

Absent == "absent"          \* a log or subsystem config file that does not exist
NoFile == [content |-> Absent, mode |-> Absent]   \* no master config file
Template == "template"      \* content of default_spinnaker_config.cfg
Contents == {Template, "edited", "broken"}
OwnerRW == "0600"           \* stat.S_IRUSR | stat.S_IWUSR
DefaultMode == "0644"       \* mode of a file created by shutil.copyfile
Stopped == {"died", "crashed", "exited", "usage_exit"}

NoPid == 0                  \* get_deck_pid's None (as falsy as 0 in "if pid:")
WebpackJs == "./node_modules/webpack-dev-server/bin/webpack-dev-server.js"
Pids == {7, 12, 130, 2048}        \* process ids that occur in process tables
Commands == { <<"node", WebpackJs>>,
              <<"node", "server.js">>,
              <<"node", "--inspect", WebpackJs>>,
              <<"sh", "-c", "node", WebpackJs>>,
              <<"tail", "-f", "deck.log">> }
Procs == [pid : Pids, cmd : Commands]
\* process tables: at most MaxLines processes, no pid twice
Tables == { t \in UNION { [1..n -> Procs] : n \in 0..MaxLines } :
              \A a, b \in 1..Len(t) : t[a].pid = t[b].pid => a = b }

VARIABLES
  pc,                       \* position of the orchestrator
  i,                        \* index of the current for-loop over subsystem names
  using_deprecated_config,  \* Runner.using_deprecated_config of this invocation
  cfgDir,                   \* CONFIG_DIR exists
  masterCfg,                \* CONFIG_DIR/spinnaker_config.cfg: NoFile or [content, mode]
  subsysCfg,                \* per-subsystem configuration file: Absent or the content it was rendered from
  logDir,                   \* LOG_DIR exists
  logs,                     \* log file of each name: "absent", "empty" or "content"
  running,                  \* names whose detached daemon is alive
  tails,                    \* log files that have a live tail process
  tail_jobs,                \* ignore_tail_jobs: the tail handles of this invocation, in order
  spawned,                  \* daemons run_daemon started in this invocation, in order
  validated,                \* validate_or_die returned in this invocation
  rendered,                 \* subsystems whose config file was written in this invocation
  opened,                   \* subsystem logs opened with mode 'w' in this invocation
  masterAtStart,            \* the master config file as this invocation found it
  polls,                    \* fetch calls of this invocation
  code,                     \* status code of the last fetch (0: none yet)
  notReadyPolls,            \* deck answers non-200 to this many polls, or Never
  runs,                     \* invocations so far
  ptable,                   \* the process table that get_deck_pid's ps command lists
  deck_pid,                 \* pid = self.get_deck_pid() of this invocation
  deck_ret,                 \* what start_deck returned in this invocation
  deckDir,                  \* the working directory of this invocation has a 'deck' entry
  exit_status,              \* exit status of the sys.exit at line 231 (0: not called)
  printed,                  \* what stop_deck printed on the console
  signalled,                \* the os.kill calls of stop_deck: set of [pid, sig]
  stop_ret,                 \* what stop_deck returned to its caller
  pc2,                      \* position of a second, concurrent invocation ("idle": none)
  copies                    \* the template copies of the current invocations, in order:
                            \* [by: invocation, over: content replaced or Absent]

fsVars == <<cfgDir, masterCfg, subsysCfg, logDir, logs>>
procVars == <<running, tails>>
runVars == <<using_deprecated_config, tail_jobs, spawned, validated, rendered,
             opened, masterAtStart, polls, code>>
envVars == <<notReadyPolls, runs>>
auxVars == <<ptable, deck_pid, deck_ret, deckDir, exit_status>>
stopVars == <<printed, signalled, stop_ret>>
raceVars == <<pc2, copies>>
vars == <<pc, i, fsVars, procVars, runVars, envVars, auxVars, stopVars, raceVars>>

(* ---------------------------- helpers ---------------------------------- *)
\* mutant: the existence check is dropped, the template is always copied
MasterExists_Never(cfg) == FALSE

\* os.path.exists(CONFIG_DIR/spinnaker_config.cfg)
MasterExists(cfg) == cfg # NoFile

\* shutil.copyfile(template, master): content of the template, default mode
CopyTemplate == [content |-> Template, mode |-> DefaultMode]

\* mutant: copyfile leaves a file that is already there alone
CopyFile_KeepExisting(cfg) == IF cfg = NoFile THEN CopyTemplate ELSE cfg

\* shutil.copyfile onto the master path: a new file, or the content of an
\* existing one replaced (its mode stays)
CopyFile(cfg) == IF cfg = NoFile THEN CopyTemplate ELSE [cfg EXCEPT !.content = Template]

\* what a copy replaced
Replaced(cfg) == IF cfg = NoFile THEN Absent ELSE cfg.content

\* mutant: the chmod is forgotten
Chmod_Forgotten(cfg) == cfg

\* os.chmod(master, S_IRUSR | S_IWUSR)
Chmod(cfg) == [cfg EXCEPT !.mode = OwnerRW]

\* ConfigureUtil.validate_or_die's verdict on the master configuration
ValidConfig(cfg) == cfg # NoFile /\ cfg.content # "broken"

\* mutant: the file is opened for appending, what it holds stays
OpenForWrite_Append(files, name) ==
  IF files[name] = Absent THEN [files EXCEPT ![name] = "empty"] ELSE files

\* mutant: the file is not created before it is tailed
OpenForWrite_NoCreate(files, name) == files

\* open(path, 'w').close(): the file exists and is empty afterwards
OpenForWrite(files, name) == [files EXCEPT ![name] = "empty"]

\* mutant: a second tail is started on the same path
StartTail_Twice(jobs, name) == Append(Append(jobs, name), name)

\* tail_jobs.append(self.start_tail(path))
StartTail(jobs, name) == Append(jobs, name)

\* mutant: the loop stops one name early
LoopDone_OneEarly(k) == k >= NumSubsystems

\* the for-loop over get_all_subsystem_names() has visited every name
LoopDone(k) == k > NumSubsystems

\* mutant: the wait for deck.log is skipped
DeckLogExists_Skipped(files) == TRUE

\* os.path.exists(deck_log_path)
DeckLogExists(files) == files[Deck] # Absent

\* the answers fetch can return on the next poll
FetchCodes(n, k) == IF n # Never /\ k >= n THEN {HTTP_OK} ELSE NotReadyCodes

\* mutant: any HTTP status ends the wait
IsReady_AnyStatus(c) == c > 0

\* if code == 200: break
IsReady(c) == c = HTTP_OK

\* mutant: a failed poll is raised as an error
OnNotReady_GiveUp == "crashed"

\* else: time.sleep(0.1), and the loop polls again
OnNotReady == "sleep_poll"

(* ---------------------------- get_deck_pid ----------------------------- *)
DigitChars == <<"0", "1", "2", "3", "4", "5", "6", "7", "8", "9">>
IsDigit(c) == \E d \in 1..Len(DigitChars) : DigitChars[d] = c
DigitValue(c) == (CHOOSE d \in 1..Len(DigitChars) : DigitChars[d] = c) - 1

\* the PID column of ps: the pid in decimal
RECURSIVE PidDigits(_)
PidDigits(n) ==
  IF n < 10 THEN <<DigitChars[n + 1]>>
  ELSE Append(PidDigits(n \div 10), DigitChars[(n % 10) + 1])

\* one line per process of "ps -f": UID, PID, ..., CMD (the fields in between left out)
PsLine(p) == [uid |-> "dev", pid |-> PidDigits(p.pid), cmd |-> p.cmd]
PsHeader == [uid |-> "UID", pid |-> <<"P", "I", "D">>, cmd |-> <<"CMD">>]

\* stdout of 'ps -fwwwC node': the header, then the processes whose command name is node
PsOutput(table) ==
  LET node == SelectSeq(table, LAMBDA p : p.cmd[1] = "node")
  IN  <<PsHeader>> \o [k \in 1..Len(node) |-> PsLine(node[k])]

\* the line matches '^[^ ]+ +([0-9]+) .* node ./node_modules/.../webpack-dev-server.js'
LineMatches(line) ==
  /\ line.pid # <<>>
  /\ \A k \in 1..Len(line.pid) : IsDigit(line.pid[k])
  /\ \E j \in 1..(Len(line.cmd) - 1) : line.cmd[j] = "node" /\ line.cmd[j + 1] = WebpackJs

\* mutant: the last matching line wins (as with findall(...)[-1])
RECURSIVE SearchLast(_, _)
SearchLast(out, k) ==
  IF k > Len(out) THEN 0
  ELSE LET later == SearchLast(out, k + 1)
       IN  IF later # 0 THEN later ELSE IF LineMatches(out[k]) THEN k ELSE 0

\* re.search: the leftmost match, 0 when there is none
RECURSIVE Search(_, _)
Search(out, k) ==
  IF k > Len(out) THEN 0
  ELSE IF LineMatches(out[k]) THEN k ELSE Search(out, k + 1)

\* int(match.group(1))
RECURSIVE ToInt(_)
ToInt(ds) ==
  IF ds = <<>> THEN 0
  ELSE 10 * ToInt(SubSeq(ds, 1, Len(ds) - 1)) + DigitValue(ds[Len(ds)])

\* return int(match.group(1)) if match else None
get_deck_pid(out) ==
  LET m == Search(out, 1)
  IN  IF m = 0 THEN NoPid ELSE ToInt(out[m].pid)

\* mutant: the result of the discovery is ignored
DeckPidFound_Ignored(pid) == FALSE

\* mutant: the test is inverted
DeckPidFound_Inverted(pid) == pid = NoPid

\* "if pid:" in start_deck and stop_deck
DeckPidFound(pid) == pid # NoPid

\* mutant: the message is never printed
Report_Silent(pid) == <<>>

\* "print 'Terminating deck in pid={pid}'" under "if pid:" in stop_deck
Report(pid) ==
  IF DeckPidFound(pid) THEN <<[msg |-> "Terminating deck in pid", pid |-> pid]>> ELSE <<>>

\* mutant: os.kill is called without the test of pid
KillTargets_Unguarded(pid) == {[pid |-> pid, sig |-> "SIGTERM"]}

\* "os.kill(pid, signal.SIGTERM)" under "if pid:" in stop_deck
KillTargets(pid) ==
  IF DeckPidFound(pid) THEN {[pid |-> pid, sig |-> "SIGTERM"]} ELSE {}

\* stop_deck has no return statement: it returns None whenever it returns
NotReturned == "not returned"
ReturnedNone == "None"

\* what start_deck returns: the discovered pid, or run_daemon's handle
NoReturn == [from |-> "none", pid |-> NoPid]
ReturnPid(pid) == [from |-> "get_deck_pid", pid |-> pid]
ReturnDaemon == [from |-> "run_daemon", pid |-> NoPid]

Inc(k) == IF k < MaxPolls THEN k + 1 ELSE k

(* ---------------------------- initial state ---------------------------- *)
Init ==
  /\ pc = "main"
  /\ i = 1
  /\ using_deprecated_config \in BOOLEAN
  /\ cfgDir = FALSE
  /\ masterCfg = NoFile
  /\ subsysCfg = [s \in Subsystems |-> Absent]
  /\ logDir = FALSE
  /\ logs = [n \in Names |-> Absent]
  /\ running = {}
  /\ tails = {}
  /\ tail_jobs = <<>>
  /\ spawned = <<>>
  /\ validated = FALSE
  /\ rendered = {}
  /\ opened = {}
  /\ masterAtStart = NoFile
  /\ polls = 0
  /\ code = 0
  /\ notReadyPolls \in (0..MaxNotReady) \cup {Never}
  /\ runs = 1
  /\ ptable = <<>>
  /\ deck_pid = NoPid
  /\ deck_ret = NoReturn
  /\ printed = <<>>
  /\ signalled = {}
  /\ stop_ret = NotReturned
  /\ pc2 = "idle"
  /\ copies = <<>>
  /\ deckDir \in BOOLEAN
  /\ exit_status = 0

(* ---------------------------- __main__ --------------------------------- *)
\* mutant: the working directory is not checked
DeckDirExists_Unchecked(d) == TRUE

\* os.path.exists('deck')
DeckDirExists(d) == d

\* the exit status the shell sees for sys.exit(n)
ExitStatus(n) == n % 256

\* if not os.path.exists('deck'): ... sys.exit(-1);  DevRunner.main()
Main ==
  /\ pc = "main"
  /\ IF DeckDirExists(deckDir)
       THEN pc' = "start_all" /\ UNCHANGED exit_status
       ELSE pc' = "usage_exit" /\ exit_status' = ExitStatus(-1)
  /\ UNCHANGED <<i, fsVars, procVars, runVars, envVars, ptable, deck_pid, deck_ret,
                 deckDir, stopVars, raceVars>>

(* ---------------------------- start_all -------------------------------- *)
\* if self.using_deprecated_config: self.reconfigure_subsystems(options)
StartAll ==
  /\ pc = "start_all"
  /\ pc' = IF using_deprecated_config THEN "makedirs_config" ELSE "tail_makedirs"
  /\ UNCHANGED <<i, fsVars, procVars, runVars, envVars, auxVars, stopVars, raceVars>>

(* ---------------------------- reconfigure_subsystems ------------------- *)
\* try: os.makedirs(CONFIG_DIR) except OSError: pass
MakedirsConfig ==
  /\ pc = "makedirs_config"
  /\ \E ok \in BOOLEAN : cfgDir' = (cfgDir \/ ok)
  /\ pc' = "seed_check"
  /\ UNCHANGED <<i, masterCfg, subsysCfg, logDir, logs, procVars, runVars, envVars, auxVars, stopVars, raceVars>>

\* if not os.path.exists(.../spinnaker_config.cfg):
SeedCheck ==
  /\ pc = "seed_check"
  /\ pc' = IF MasterExists(masterCfg) THEN "validate" ELSE "seed_copy"
  /\ UNCHANGED <<i, fsVars, procVars, runVars, envVars, auxVars, stopVars, raceVars>>

\* shutil.copyfile(template, master); raises IOError when CONFIG_DIR is missing
SeedCopy ==
  /\ pc = "seed_copy"
  /\ IF cfgDir
       THEN /\ masterCfg' = CopyFile(masterCfg)
            /\ copies' = Append(copies, [by |-> 1, over |-> Replaced(masterCfg)])
            /\ pc' = "seed_chmod"
       ELSE UNCHANGED <<masterCfg, copies>> /\ pc' = "crashed"
  /\ UNCHANGED <<i, cfgDir, subsysCfg, logDir, logs, procVars, runVars, envVars, auxVars, stopVars, pc2>>

\* os.chmod(master, stat.S_IRUSR | stat.S_IWUSR), then the warning is printed
SeedChmod ==
  /\ pc = "seed_chmod"
  /\ masterCfg' = Chmod(masterCfg)
  /\ pc' = "validate"
  /\ UNCHANGED <<i, cfgDir, subsysCfg, logDir, logs, procVars, runVars, envVars, auxVars, stopVars, raceVars>>

\* util.validate_or_die()
Validate ==
  /\ pc = "validate"
  /\ IF ValidConfig(masterCfg)
       THEN validated' = TRUE /\ pc' = "render" /\ i' = 1
       ELSE UNCHANGED validated /\ pc' = "died" /\ UNCHANGED i
  /\ UNCHANGED <<fsVars, procVars, using_deprecated_config, tail_jobs, spawned,
                 rendered, opened, masterAtStart, polls, code, envVars, auxVars, stopVars, raceVars>>

\* bindings = util.load_bindings(); util.update_all_config_files(bindings)
Render ==
  /\ pc = "render"
  /\ IF i > NumSubsystems
       THEN pc' = "tail_makedirs" /\ i' = 1 /\ UNCHANGED <<subsysCfg, rendered>>
       ELSE /\ subsysCfg' = [subsysCfg EXCEPT ![i] = masterCfg.content]
            /\ rendered' = rendered \cup {i}
            /\ i' = i + 1
            /\ UNCHANGED pc
  /\ UNCHANGED <<cfgDir, masterCfg, logDir, logs, procVars, using_deprecated_config,
                 tail_jobs, spawned, validated, opened, masterAtStart, polls, code, envVars, auxVars, stopVars, raceVars>>

(* ---------------------------- tail_error_logs -------------------------- *)
\* try: os.makedirs(log_dir) except OSError: pass
TailMakedirs ==
  /\ pc = "tail_makedirs"
  /\ \E ok \in BOOLEAN : logDir' = (logDir \/ ok)
  /\ pc' = "tail_open"
  /\ i' = 1
  /\ UNCHANGED <<cfgDir, masterCfg, subsysCfg, logs, procVars, runVars, envVars, auxVars, stopVars, raceVars>>

\* for subsystem in names: open(path, 'w').close()   (IOError when LOG_DIR is missing)
TailOpen ==
  /\ pc = "tail_open"
  /\ IF LoopDone(i)
       THEN pc' = "start_subsystems" /\ i' = 1 /\ UNCHANGED <<logs, opened, tails>>
       ELSE IF logDir
         THEN /\ logs' = OpenForWrite(logs, i)
              /\ opened' = opened \cup {i}
              /\ pc' = "tail_start"
              /\ UNCHANGED <<i, tails>>
         ELSE /\ pc' = "crashed"
              /\ tails' = {}
              /\ UNCHANGED <<i, logs, opened>>
  /\ UNCHANGED <<cfgDir, masterCfg, subsysCfg, logDir, running, using_deprecated_config,
                 tail_jobs, spawned, validated, rendered, masterAtStart, polls, code, envVars, auxVars, stopVars, raceVars>>

\* tail_jobs.append(self.start_tail(path))
TailStart ==
  /\ pc = "tail_start"
  /\ tail_jobs' = StartTail(tail_jobs, i)
  /\ tails' = tails \cup {i}
  /\ i' = i + 1
  /\ pc' = "tail_open"
  /\ UNCHANGED <<fsVars, running, using_deprecated_config, spawned, validated,
                 rendered, opened, masterAtStart, polls, code, envVars, auxVars, stopVars, raceVars>>

(* ---------------------------- Runner.start_all ------------------------- *)
\* start_subsystem(subsystem) for every subsystem: run_daemon(command, [command])
StartSubsystem ==
  /\ pc = "start_subsystems"
  /\ IF i > NumSubsystems
       THEN pc' = "start_deck" /\ i' = 1 /\ UNCHANGED <<running, spawned, tails>>
       ELSE \E ok \in BOOLEAN :
              IF ok
                THEN /\ running' = running \cup {i}
                     /\ spawned' = Append(spawned, i)
                     /\ i' = i + 1
                     /\ UNCHANGED <<pc, tails>>
                ELSE /\ pc' = "crashed"
                     /\ tails' = {}
                     /\ UNCHANGED <<i, running, spawned>>
  /\ UNCHANGED <<fsVars, using_deprecated_config, tail_jobs, validated, rendered,
                 opened, masterAtStart, polls, code, envVars, auxVars, stopVars, raceVars>>

\* what get_deck_pid returns over the process tables
DiscoveredPids == {get_deck_pid(PsOutput(t)) : t \in Tables}

\* start_deck: pid = get_deck_pid(); if pid: return pid; else run_daemon(path, [path])
StartDeck ==
  /\ pc = "start_deck"
  /\ deck_pid' \in DiscoveredPids
  /\ IF DeckPidFound(deck_pid')
       THEN /\ deck_ret' = ReturnPid(deck_pid')
            /\ pc' = "check_deck_log"
            /\ UNCHANGED <<running, spawned, tails>>
       ELSE \E ok \in BOOLEAN :
              IF ok
                THEN /\ running' = running \cup {Deck}
                     /\ spawned' = Append(spawned, Deck)
                     /\ deck_ret' = ReturnDaemon
                     /\ pc' = "check_deck_log"
                     /\ UNCHANGED tails
                ELSE /\ pc' = "crashed"
                     /\ tails' = {}
                     /\ UNCHANGED <<running, spawned, deck_ret>>
  /\ UNCHANGED <<i, fsVars, using_deprecated_config, tail_jobs, validated, rendered,
                 opened, masterAtStart, polls, code, envVars, ptable, deckDir,
                 exit_status, stopVars, raceVars>>

(* ---------------------------- waiting for deck ------------------------- *)
\* while not os.path.exists(deck_log_path):
CheckDeckLog ==
  /\ pc = "check_deck_log"
  /\ pc' = IF DeckLogExists(logs) THEN "tail_deck" ELSE "sleep_deck_log"
  /\ UNCHANGED <<i, fsVars, procVars, runVars, envVars, auxVars, stopVars, raceVars>>

\*   time.sleep(0.1)
SleepDeckLog ==
  /\ pc = "sleep_deck_log"
  /\ pc' = "check_deck_log"
  /\ UNCHANGED <<i, fsVars, procVars, runVars, envVars, auxVars, stopVars, raceVars>>

\* ignore_tail_jobs.append(self.start_tail(deck_log_path))
TailDeck ==
  /\ pc = "tail_deck"
  /\ tail_jobs' = StartTail(tail_jobs, Deck)
  /\ tails' = tails \cup {Deck}
  /\ pc' = "fetch"
  /\ UNCHANGED <<i, fsVars, running, using_deprecated_config, spawned, validated,
                 rendered, opened, masterAtStart, polls, code, envVars, auxVars, stopVars, raceVars>>

\* code, ignore = fetch('http://localhost:{port}/')
Fetch ==
  /\ pc = "fetch"
  /\ code' \in FetchCodes(notReadyPolls, polls)
  /\ polls' = Inc(polls)
  /\ pc' = "check_code"
  /\ UNCHANGED <<i, fsVars, procVars, using_deprecated_config, tail_jobs, spawned,
                 validated, rendered, opened, masterAtStart, envVars, auxVars, stopVars, raceVars>>

\* if code == 200: break  else: time.sleep(0.1)
CheckCode ==
  /\ pc = "check_code"
  /\ pc' = IF IsReady(code) THEN "banner" ELSE OnNotReady
  /\ UNCHANGED <<i, fsVars, procVars, runVars, envVars, auxVars, stopVars, raceVars>>

SleepPoll ==
  /\ pc = "sleep_poll"
  /\ pc' = "fetch"
  /\ UNCHANGED <<i, fsVars, procVars, runVars, envVars, auxVars, stopVars, raceVars>>

\* print "Spinnaker is now ready ..."; while True: time.sleep(3600)
PrintReady ==
  /\ pc = "banner"
  /\ pc' = "READY"
  /\ UNCHANGED <<i, fsVars, procVars, runVars, envVars, auxVars, stopVars, raceVars>>

(* ---------------------------- environment ------------------------------ *)
\* a running daemon writes to its log file (deck's start script creates deck.log)
DaemonWrites ==
  /\ logDir
  /\ \E n \in running :
       /\ logs[n] # "content"
       /\ logs' = [logs EXCEPT ![n] = "content"]
  /\ UNCHANGED <<pc, i, cfgDir, masterCfg, subsysCfg, logDir, procVars, runVars, envVars, auxVars, stopVars, raceVars>>

\* mutant: the signal reaches the daemons too
SurvivingDaemons_None(procs) == {}

\* run_daemon detaches what it starts: a signal to the script leaves it alone
SurvivingDaemons(procs) == procs

\* ^C or a termination signal: the script and its tails stop, the daemons stay
Interrupt ==
  /\ pc \notin Stopped
  /\ pc' = "exited"
  /\ tails' = {}
  /\ running' = SurvivingDaemons(running)
  /\ UNCHANGED <<i, fsVars, runVars, envVars, auxVars, stopVars, raceVars>>

\* "If that is not your intention, edit the .cfg and run again."
DeveloperEdits ==
  /\ pc \in Stopped
  /\ masterCfg # NoFile
  /\ \E c \in Contents \ {Template} :
       /\ masterCfg.content # c
       /\ masterCfg' = [masterCfg EXCEPT !.content = c]
  /\ UNCHANGED <<pc, i, cfgDir, subsysCfg, logDir, logs, procVars, runVars, envVars, auxVars, stopVars, raceVars>>

\* the script is run again: a new DevRunner, the file system and daemons persist
Invoke ==
  /\ pc \in Stopped
  /\ runs < MaxRuns
  /\ runs' = runs + 1
  /\ pc' = "main"
  /\ i' = 1
  /\ using_deprecated_config' \in BOOLEAN
  /\ notReadyPolls' \in (0..MaxNotReady) \cup {Never}
  /\ tail_jobs' = <<>>
  /\ spawned' = <<>>
  /\ validated' = FALSE
  /\ rendered' = {}
  /\ opened' = {}
  /\ masterAtStart' = masterCfg
  /\ polls' = 0
  /\ code' = 0
  /\ deck_pid' = NoPid
  /\ deck_ret' = NoReturn
  /\ deckDir' \in BOOLEAN
  /\ exit_status' = 0
  /\ copies' = <<>>
  /\ UNCHANGED <<fsVars, procVars, ptable, stopVars, pc2>>

(* ---------------------------- specification ---------------------------- *)
Orchestrator ==
  \/ Main
  \/ StartAll
  \/ MakedirsConfig
  \/ SeedCheck
  \/ SeedCopy
  \/ SeedChmod
  \/ Validate
  \/ Render
  \/ TailMakedirs
  \/ TailOpen
  \/ TailStart
  \/ StartSubsystem
  \/ StartDeck
  \/ CheckDeckLog
  \/ SleepDeckLog
  \/ TailDeck
  \/ Fetch
  \/ CheckCode
  \/ SleepPoll
  \/ PrintReady

Next ==
  \/ Orchestrator
  \/ DaemonWrites
  \/ Interrupt
  \/ DeveloperEdits
  \/ Invoke

Spec == Init /\ [][Next]_vars

\* The script left alone by its operator: no ^C.  The interpreter keeps running
\* the sequential script (every sleep returns), hence weak fairness of its steps.
NextUninterrupted ==
  \/ Orchestrator
  \/ DaemonWrites
  \/ DeveloperEdits
  \/ Invoke

LiveSpec == Init /\ [][NextUninterrupted]_vars /\ WF_vars(Orchestrator)

(* ---------------------------- get_deck_pid on its own ------------------ *)
\* get_deck_pid applied to every process table within the bounds
PsInit ==
  /\ pc = "get_deck_pid"
  /\ i = 1
  /\ using_deprecated_config = FALSE
  /\ cfgDir = FALSE
  /\ masterCfg = NoFile
  /\ subsysCfg = [s \in Subsystems |-> Absent]
  /\ logDir = FALSE
  /\ logs = [n \in Names |-> Absent]
  /\ running = {}
  /\ tails = {}
  /\ tail_jobs = <<>>
  /\ spawned = <<>>
  /\ validated = FALSE
  /\ rendered = {}
  /\ opened = {}
  /\ masterAtStart = NoFile
  /\ polls = 0
  /\ code = 0
  /\ notReadyPolls = 0
  /\ runs = 1
  /\ ptable \in Tables
  /\ deck_pid = NoPid
  /\ deck_ret = NoReturn
  /\ printed = <<>>
  /\ signalled = {}
  /\ stop_ret = NotReturned
  /\ pc2 = "idle"
  /\ copies = <<>>
  /\ deckDir = TRUE
  /\ exit_status = 0

GetDeckPid ==
  /\ pc = "get_deck_pid"
  /\ deck_pid' = get_deck_pid(PsOutput(ptable))
  /\ pc' = "returned"
  /\ UNCHANGED <<i, fsVars, procVars, runVars, envVars, ptable, deck_ret, deckDir,
                 exit_status, stopVars, raceVars>>

\* DevRunner.stop_deck, called on its own on a snapshot of the process table.
\* os.kill raises OSError when the process has gone since the snapshot.
StopInit ==
  /\ pc = "stop_deck"
  /\ i = 1
  /\ using_deprecated_config = FALSE
  /\ cfgDir = FALSE
  /\ masterCfg = NoFile
  /\ subsysCfg = [s \in Subsystems |-> Absent]
  /\ logDir = FALSE
  /\ logs = [n \in Names |-> Absent]
  /\ running = {}
  /\ tails = {}
  /\ tail_jobs = <<>>
  /\ spawned = <<>>
  /\ validated = FALSE
  /\ rendered = {}
  /\ opened = {}
  /\ masterAtStart = NoFile
  /\ polls = 0
  /\ code = 0
  /\ notReadyPolls = 0
  /\ runs = 1
  /\ ptable \in Tables
  /\ deck_pid = NoPid
  /\ deck_ret = NoReturn
  /\ printed = <<>>
  /\ signalled = {}
  /\ stop_ret = NotReturned
  /\ pc2 = "idle"
  /\ copies = <<>>
  /\ deckDir = TRUE
  /\ exit_status = 0

StopDeck ==
  /\ pc = "stop_deck"
  /\ deck_pid' = get_deck_pid(PsOutput(ptable))
  /\ printed' = Report(deck_pid')
  /\ signalled' = KillTargets(deck_pid')
  /\ \/ pc' = "stopped" /\ stop_ret' = ReturnedNone
     \/ /\ DeckPidFound(deck_pid')
        /\ pc' = "kill_raised"
        /\ UNCHANGED stop_ret
  /\ UNCHANGED <<i, fsVars, procVars, runVars, envVars, ptable, deck_ret, deckDir,
                 exit_status, raceVars>>

StopNext == StopDeck

StopSpec == StopInit /\ [][StopNext]_vars

(* --------------- two invocations on the same installation -------------- *)
\* a second invocation runs the seeding steps of reconfigure_subsystems
\* (lines 153-160) while the first one is in reconfigure_subsystems
RaceInit ==
  /\ pc = "makedirs_config"
  /\ i = 1
  /\ using_deprecated_config = TRUE
  /\ cfgDir \in BOOLEAN
  /\ masterCfg \in {NoFile} \cup [content : Contents, mode : {OwnerRW}]
  /\ subsysCfg = [s \in Subsystems |-> Absent]
  /\ logDir = FALSE
  /\ logs = [n \in Names |-> Absent]
  /\ running = {}
  /\ tails = {}
  /\ tail_jobs = <<>>
  /\ spawned = <<>>
  /\ validated = FALSE
  /\ rendered = {}
  /\ opened = {}
  /\ masterAtStart = masterCfg
  /\ polls = 0
  /\ code = 0
  /\ notReadyPolls = 0
  /\ runs = 1
  /\ ptable = <<>>
  /\ deck_pid = NoPid
  /\ deck_ret = NoReturn
  /\ printed = <<>>
  /\ signalled = {}
  /\ stop_ret = NotReturned
  /\ pc2 = "makedirs_config"
  /\ copies = <<>>
  /\ deckDir = TRUE
  /\ exit_status = 0

MakedirsConfig2 ==
  /\ pc2 = "makedirs_config"
  /\ \E ok \in BOOLEAN : cfgDir' = (cfgDir \/ ok)
  /\ pc2' = "seed_check"
  /\ UNCHANGED <<pc, i, masterCfg, subsysCfg, logDir, logs, procVars, runVars, envVars,
                 auxVars, stopVars, copies>>

SeedCheck2 ==
  /\ pc2 = "seed_check"
  /\ pc2' = IF MasterExists(masterCfg) THEN "validate" ELSE "seed_copy"
  /\ UNCHANGED <<pc, i, fsVars, procVars, runVars, envVars, auxVars, stopVars, copies>>

SeedCopy2 ==
  /\ pc2 = "seed_copy"
  /\ IF cfgDir
       THEN /\ masterCfg' = CopyFile(masterCfg)
            /\ copies' = Append(copies, [by |-> 2, over |-> Replaced(masterCfg)])
            /\ pc2' = "seed_chmod"
       ELSE UNCHANGED <<masterCfg, copies>> /\ pc2' = "crashed"
  /\ UNCHANGED <<pc, i, cfgDir, subsysCfg, logDir, logs, procVars, runVars, envVars,
                 auxVars, stopVars>>

SeedChmod2 ==
  /\ pc2 = "seed_chmod"
  /\ masterCfg' = Chmod(masterCfg)
  /\ pc2' = "validate"
  /\ UNCHANGED <<pc, i, cfgDir, subsysCfg, logDir, logs, procVars, runVars, envVars,
                 auxVars, stopVars, copies>>

\* the developer edits the master configuration while invocations are running
EditorWrites ==
  /\ masterCfg # NoFile
  /\ \E c \in Contents \ {Template} :
       /\ masterCfg.content # c
       /\ masterCfg' = [masterCfg EXCEPT !.content = c]
  /\ UNCHANGED <<pc, i, cfgDir, subsysCfg, logDir, logs, procVars, runVars, envVars,
                 auxVars, stopVars, raceVars>>

RaceNext ==
  \/ MakedirsConfig \/ SeedCheck \/ SeedCopy \/ SeedChmod
  \/ MakedirsConfig2 \/ SeedCheck2 \/ SeedCopy2 \/ SeedChmod2
  \/ EditorWrites

RaceSpec == RaceInit /\ [][RaceNext]_vars

PsNext == GetDeckPid

PsSpec == PsInit /\ [][PsNext]_vars

TypeOK ==
  /\ i \in 1..(NumSubsystems + 1)
  /\ polls \in 0..MaxPolls
  /\ runs \in 1..MaxRuns
  /\ masterCfg \in {NoFile} \cup [content : Contents, mode : {OwnerRW, DefaultMode}]
  /\ running \subseteq Names
  /\ tails \subseteq Names

(* ======================================================================= *)
(* Properties                                                              *)
(* ======================================================================= *)
Range(s) == {s[k] : k \in 1..Len(s)}
Live == pc \notin Stopped
Waiting == {"check_deck_log", "sleep_deck_log", "tail_deck", "fetch",
            "check_code", "sleep_poll"}

\* C1: in every run of start_all validation precedes rendering, rendering of
\* every subsystem's configuration precedes the first spawn, and no subsystem
\* is spawned while the configuration is unvalidated or only partly rendered.
C1_ValidateRenderSpawnOrder ==
  /\ (rendered # {} => validated)
  /\ (spawned # <<>> => validated /\ rendered = Subsystems)

C3_RenderedInEveryRun ==
  pc = "start_subsystems"
    => /\ rendered = Subsystems
       /\ \A s \in Subsystems : subsysCfg[s] = masterCfg.content

\* C4: whenever a tail is attached to a subsystem's log file, LOG_DIR and that
\* file exist, whether or not they existed before the run.
C4_LogExistsWhenTailed ==
  [][\A s \in Subsystems :
       (Len(tail_jobs') = Len(tail_jobs) + 1 /\ tail_jobs'[Len(tail_jobs')] = s)
         => (logDir' /\ logs'[s] # Absent)]_vars

C4_Witness ==
  /\ runs = 1
  /\ pc = "start_subsystems"
  /\ Range(tail_jobs) = Subsystems
  /\ \A s \in Subsystems : logs[s] # Absent

\* C5: once this run has spawned a daemon, every subsystem's log file has been
\* opened for writing by this run, exists, and has its tail in tail_jobs.
C5_LogsPreparedBeforeSpawn ==
  spawned # <<>>
    => \A s \in Subsystems :
         /\ s \in opened
         /\ logs[s] # Absent
         /\ s \in Range(tail_jobs)

C5_Witness ==
  /\ pc = "start_subsystems"
  /\ Len(spawned) = 1
  /\ opened = Subsystems

\* C6: with a deck that answers non-200 to the first N polls and 200 to the
\* next, the gate is left after exactly N+1 polls, the last of which returned
\* 200; inside the loop at most N+1 polls were made and the banner is not
\* printed before a 200.
C6_ReadinessGate ==
  /\ pc \in {"banner", "READY"}
       => /\ code = HTTP_OK
          /\ notReadyPolls # Never
          /\ polls = notReadyPolls + 1
  /\ (pc \in {"fetch", "sleep_poll"} /\ notReadyPolls # Never) => polls <= notReadyPolls
  /\ pc = "sleep_poll" => code # HTTP_OK

C6_Witness ==
  /\ pc = "READY"
  /\ notReadyPolls = MaxNotReady
  /\ polls = MaxNotReady + 1

\* C7: no HTTP poll is made before deck.log exists and a tail is attached to
\* it; while deck.log is absent the script only sleeps and checks again.
C7_NoPollBeforeDeckLogTailed ==
  /\ []((polls > 0 \/ pc \in {"fetch", "check_code", "sleep_poll", "banner", "READY"})
          => (logs[Deck] # Absent /\ Deck \in Range(tail_jobs)))
  /\ [][(pc \in {"check_deck_log", "sleep_deck_log"} /\ logs[Deck] = Absent /\ pc' # pc)
          => /\ pc' \in {"check_deck_log", "sleep_deck_log", "exited"}
             /\ polls' = polls
             /\ tail_jobs' = tail_jobs
             /\ spawned' = spawned]_vars

C7_Witness ==
  /\ pc = "check_code"
  /\ polls = 1
  /\ Deck \in tails
  /\ Deck \in Range(spawned)

\* C8: absence of deck.log, a non-200 status and a connection failure never
\* end the run in an error: the waiting phases are left only for the ready
\* banner; a deck that never answers 200 keeps the script waiting for ever;
\* and once deck.log exists and deck answers 200 after finitely many polls
\* the script reaches READY.
C8_WaitsForeverOrReady ==
  /\ [][(pc \in Waiting) => (pc' \in (Waiting \cup {"banner"}))]_vars
  /\ [](notReadyPolls = Never => pc \notin {"banner", "READY"})
  /\ ((pc \in Waiting /\ logs[Deck] # Absent /\ notReadyPolls # Never) ~> pc = "READY")

C8_Witness ==
  /\ pc = "READY"
  /\ notReadyPolls = MaxNotReady
  /\ code = HTTP_OK
  /\ runs = 1

\* C9: a run that finds the master configuration file in place never changes
\* its content or its permissions, however often the script is run.
C9_SeedingIdempotent ==
  (masterAtStart # NoFile /\ Live) => masterCfg = masterAtStart

C9_Witness ==
  /\ runs = MaxRuns
  /\ using_deprecated_config
  /\ pc = "tail_makedirs"
  /\ rendered = Subsystems
  /\ masterAtStart = [content |-> "edited", mode |-> DefaultMode]

\* C10: a run that finds no master configuration file (CONFIG_DIR absent or
\* empty) has, when validation and rendering begin, a master file whose
\* content is the template's and whose permissions are owner read/write only.
C10_SeedFromScratch ==
  (masterAtStart = NoFile /\ pc \in {"validate", "render"})
    => masterCfg = [content |-> Template, mode |-> OwnerRW]

C10_Witness ==
  /\ masterAtStart = NoFile
  /\ pc = "validate"
  /\ masterCfg = [content |-> Template, mode |-> OwnerRW]

\* the processes of the table that run the front-end's dev server under node
DeckProcesses(t) ==
  {k \in 1..Len(t) :
     /\ t[k].cmd[1] = "node"
     /\ \E j \in 1..(Len(t[k].cmd) - 1) : t[k].cmd[j] = "node" /\ t[k].cmd[j + 1] = WebpackJs}
FirstOf(S) == CHOOSE k \in S : \A m \in S : k <= m

\* C11: process discovery returns None when no line of the snapshot matches
\* the front-end command, the pid P of the one matching line when there is
\* exactly one, and the pid of the first matching line when there are several.
C11_ProcessDiscovery ==
  pc = "returned"
    => /\ DeckProcesses(ptable) = {} => deck_pid = NoPid
       /\ DeckProcesses(ptable) # {}
            => deck_pid = ptable[FirstOf(DeckProcesses(ptable))].pid

C11_Witness ==
  /\ pc = "returned"
  /\ Cardinality(DeckProcesses(ptable)) = 2
  /\ FirstOf(DeckProcesses(ptable)) = 2
  /\ deck_pid = 130
  /\ deck_pid = ptable[2].pid

\* C12: an invocation from a directory without 'deck' exits with a non-zero
\* status before DevRunner.main: it goes from the check straight to the exit,
\* and none of its steps writes a file, starts a tail or spawns a process.
C12_PreconditionEnforced ==
  /\ [](~deckDir => (pc \in {"main", "usage_exit", "exited"} /\ tail_jobs = <<>> /\ spawned = <<>>))
  /\ [](pc = "usage_exit" => (~deckDir /\ exit_status # 0))
  /\ [][(~deckDir /\ pc = "main" /\ pc' # pc /\ pc' # "exited")
          => (pc' = "usage_exit" /\ UNCHANGED <<fsVars, procVars, tail_jobs, spawned>>)]_vars

C12_Witness ==
  /\ pc = "usage_exit"
  /\ exit_status = 255
  /\ runs = 2
  /\ running = Names

PastStartDeck == Waiting \cup {"banner", "READY"}
AllSubsystems == [k \in 1..NumSubsystems |-> k]

\* C13 as stated: a start sequence that gets to the readiness gate has spawned
\* exactly N+1 processes, one per subsystem and the front-end.
C13_ExactlyNPlusOne ==
  pc \in PastStartDeck
    => (Len(spawned) = NumSubsystems + 1 /\ Range(spawned) = Names)

\* C13 amended: a start sequence that gets to the readiness gate has spawned
\* the N subsystems and, only if discovery found no front-end process, the
\* front-end: N+1 processes, or N with a front-end already running.  Nothing
\* is spawned from the gate on, and at READY the script stays idle until it
\* is interrupted: it spawns nothing, starts no tail and writes no file (the
\* daemons alone write to their logs).
C13_SpawnCount ==
  /\ [](pc \in PastStartDeck
          => spawned = AllSubsystems \o (IF deck_pid = NoPid THEN <<Deck>> ELSE <<>>))
  /\ [][(pc \in PastStartDeck /\ pc' # "main") => spawned' = spawned]_vars
  /\ [][pc = "READY"
          => /\ pc' \in {"READY", "exited"}
             /\ UNCHANGED <<tail_jobs, spawned, running, cfgDir, masterCfg, subsysCfg, logDir>>
             /\ tails' \subseteq tails
             /\ \/ logs' = logs
                \/ \E n \in running : logs' = [logs EXCEPT ![n] = "content"]]_vars

C13_Witness ==
  /\ pc = "READY"
  /\ deck_pid # NoPid
  /\ spawned = AllSubsystems
  /\ Len(tail_jobs) = NumSubsystems + 1

\* C18: start_deck spawns nothing and returns P when discovery finds a
\* front-end process with pid P; the front-end start script is spawned only
\* when discovery returned None.
C18_NoDoubleStart ==
  /\ deck_pid # NoPid => (Deck \notin Range(spawned) /\ deck_ret = ReturnPid(deck_pid))
  /\ deck_ret.from = "get_deck_pid" => deck_pid # NoPid
  /\ Deck \in Range(spawned) => (deck_pid = NoPid /\ deck_ret = ReturnDaemon)

C18_Witness ==
  /\ pc = "check_deck_log"
  /\ deck_pid = 12
  /\ deck_ret = ReturnPid(12)
  /\ spawned = AllSubsystems
  /\ Deck \in running

\* C14 as stated: stop_deck's result tells its caller whether anything was
\* stopped: the result after a front-end process was found and signalled
\* differs from the result when none was found, which is None.
C14_ResultTellsWhetherStopped ==
  (pc = "stopped" /\ deck_pid # NoPid) => stop_ret # ReturnedNone

\* C14 amended: stop_deck locates the front-end pid, sends it SIGTERM and
\* reports on the console, not to its caller: the 'Terminating deck' line
\* with the pid is printed exactly when a process was found and signalled,
\* and the value returned is None in both cases.
C14_ReportsOnConsoleOnly ==
  /\ pc \in {"stopped", "kill_raised"}
       => /\ deck_pid # NoPid
            => /\ printed = <<[msg |-> "Terminating deck in pid", pid |-> deck_pid]>>
               /\ signalled = {[pid |-> deck_pid, sig |-> "SIGTERM"]}
          /\ deck_pid = NoPid => (printed = <<>> /\ signalled = {})
  /\ pc = "stopped" => stop_ret = ReturnedNone
  /\ pc = "kill_raised" => stop_ret = NotReturned

C14_Witness ==
  /\ pc = "stopped"
  /\ deck_pid = 7
  /\ printed # <<>>
  /\ signalled # {}
  /\ stop_ret = ReturnedNone

\* C15: stop_deck signals at most one process, with SIGTERM, and that process
\* is the one discovery returned, a front-end process of the table: no other
\* process is signalled, and when discovery finds none no signal is sent and
\* stop_deck returns normally.
C15_StopAffectsOnlyDeck ==
  pc \in {"stopped", "kill_raised"}
    => /\ Cardinality(signalled) <= 1
       /\ \A s \in signalled :
            /\ s.sig = "SIGTERM"
            /\ s.pid = deck_pid
            /\ \E k \in DeckProcesses(ptable) : ptable[k].pid = s.pid
       /\ deck_pid = NoPid => (signalled = {} /\ pc = "stopped")

C15_Witness ==
  /\ pc = "stopped"
  /\ Len(ptable) = MaxLines
  /\ DeckProcesses(ptable) = {MaxLines}
  /\ signalled = {[pid |-> ptable[MaxLines].pid, sig |-> "SIGTERM"]}

\* C16: an interrupt or termination of the script, at any point after daemons
\* were spawned, stops the script and its tails and nothing else: every daemon
\* that was running is still running, no file is touched, and afterwards each
\* running daemon can still write to its log file.
C16_InterruptSparesDaemons ==
  /\ [][(pc \notin Stopped /\ pc' = "exited")
          => (running' = running /\ tails' = {} /\ UNCHANGED <<fsVars, spawned>>)]_vars
  /\ [][(pc = "exited" /\ pc' = "exited") => (running' = running /\ tails' = {})]_vars
  /\ [](pc = "exited"
          => \A n \in running :
               (logDir /\ logs[n] # "content")
                 => ENABLED (DaemonWrites /\ logs'[n] = "content"))

C16_Witness ==
  /\ pc = "exited"
  /\ running = Names
  /\ tails = {}
  /\ runs = 1
  /\ \A n \in Names : logs[n] = "content"
  /\ Len(tail_jobs) = NumSubsystems + 1

\* C17: with two invocations seeding concurrently, the existence check and
\* the copy are separate steps: every copy puts the template in place
\* whatever is there by then, and a copy that replaces an existing file is
\* the second copy, made by the invocation that did not make the first.
C17_SeedingNotAtomic ==
  /\ [][Len(copies') > Len(copies)
          => (masterCfg' # NoFile /\ masterCfg'.content = Template)]_vars
  /\ [](\A k \in 1..Len(copies) :
          copies[k].over # Absent => (k = 2 /\ copies[1].by # copies[2].by))
  /\ [](Len(copies) <= 2)

C17_Witness ==
  /\ Len(copies) = 2
  /\ copies[1].over = Absent
  /\ copies[2].over = "edited"
  /\ masterCfg.content = Template
  /\ masterAtStart = NoFile

\* C19: tail_error_logs truncates the log file of every subsystem in every
\* invocation that runs it, whether or not the file had content and whether
\* or not the subsystem's daemon of an earlier invocation is still running:
\* a log opened in this invocation is empty right after the open and stays
\* empty until a running daemon writes to it, and when tail_error_logs has
\* returned every subsystem's log was opened.
C19_LogsTruncatedEveryRun ==
  /\ [][\A n \in Subsystems :
          (n \in opened' /\ n \notin opened) => logs'[n] = "empty"]_vars
  /\ [](\A n \in opened :
          logs[n] = "empty" \/ (logs[n] = "content" /\ n \in running))
  /\ [][\A n \in opened :
          (n \in opened' /\ logs[n] = "empty" /\ logs'[n] # "empty")
            => (n \in running /\ logs'[n] = "content" /\ pc' = pc)]_vars
  /\ [](pc \in ({"start_subsystems", "start_deck"} \cup PastStartDeck)
          => opened = Subsystems)

C19_Witness ==
  /\ runs = 2
  /\ pc = "tail_start"
  /\ i = 1
  /\ spawned = <<>>
  /\ 1 \in running
  /\ logs[1] = "empty"
  /\ logs[2] = "content"

\* C20: in one run of start_all every log path gets one tail: tail_jobs never
\* holds a name twice and never more than one entry per subsystem plus one;
\* when tail_error_logs has returned it holds each subsystem once, in order,
\* and the front-end log's tail is added once, after the log has appeared.
C20_OneTailPerLog ==
  /\ [](\A a, b \in 1..Len(tail_jobs) : tail_jobs[a] = tail_jobs[b] => a = b)
  /\ [](Len(tail_jobs) <= NumSubsystems + 1)
  /\ [](pc \in {"start_subsystems", "start_deck", "check_deck_log", "sleep_deck_log",
                "tail_deck"}
          => tail_jobs = AllSubsystems)
  /\ [](pc \in {"fetch", "check_code", "sleep_poll", "banner", "READY"}
          => tail_jobs = Append(AllSubsystems, Deck))
  /\ [][(Deck \in Range(tail_jobs') /\ Deck \notin Range(tail_jobs))
          => logs[Deck] # Absent]_vars

C20_Witness ==
  /\ pc = "READY"
  /\ runs = 2
  /\ tail_jobs = Append(AllSubsystems, Deck)
  /\ tails = Names
====
